---- MODULE Spec2Model ----
(***************************************************************************)
(* Model of the Stochastic oscillator indicator, getValues() of            *)
(* ts/Stock/Indicators/StochasticIndicator.ts.                             *)
(*                                                                         *)
(* JavaScript numbers are modelled as tagged records: exact rationals      *)
(* (t = "num", n/d in lowest terms, d > 0), NaN, +Infinity / -Infinity     *)
(* (t = "inf", n = 1 / -1), null and undefined.  Rounding and overflow of  *)
(* IEEE doubles are not modelled; signed zero is not modelled (every zero  *)
(* divisor of this code is the +0 that x - x yields).                      *)
(***************************************************************************)
EXTENDS Integers, Sequences, FiniteSets, TLC

\* ------------------------------------------------------------------ bounds
MaxLen == 3
MaxPeriod == 2

\* ------------------------------------------------- JavaScript number values
RECURSIVE GCD(_, _)
GCD(a, b) == IF b = 0 THEN a ELSE GCD(b, a % b)

Abs(a) == IF a < 0 THEN -a ELSE a

Sign(a) == IF a < 0 THEN -1 ELSE IF a > 0 THEN 1 ELSE 0

Num(n, d) ==
    LET s == IF d < 0 THEN -1 ELSE 1
        g == GCD(Abs(n), Abs(d))
    IN  [t |-> "num", n |-> (s * n) \div g, d |-> (s * d) \div g]

Int2Num(n) == [t |-> "num", n |-> n, d |-> 1]

NaN == [t |-> "nan", n |-> 0, d |-> 1]

Infinity(s) == [t |-> "inf", n |-> s, d |-> 1]

Null == [t |-> "null", n |-> 0, d |-> 1]

Undefined == [t |-> "undef", n |-> 0, d |-> 1]

\* ToNumber coercion applied by the arithmetic operators and Math.min/max
ToNumber(v) ==
    IF v.t = "undef" THEN NaN
    ELSE IF v.t = "null" THEN Int2Num(0)
    ELSE v

IsFinite(v) == v.t = "num"

\* a - b
Sub(a, b) ==
    LET x == ToNumber(a)
        y == ToNumber(b)
    IN  IF x.t = "nan" \/ y.t = "nan" THEN NaN
        ELSE IF x.t = "inf" /\ y.t = "inf"
             THEN IF x.n = y.n THEN NaN ELSE x
        ELSE IF x.t = "inf" THEN x
        ELSE IF y.t = "inf" THEN Infinity(-y.n)
        ELSE Num(x.n * y.d - y.n * x.d, x.d * y.d)

\* a + b
Add(a, b) ==
    LET x == ToNumber(a)
        y == ToNumber(b)
    IN  IF x.t = "nan" \/ y.t = "nan" THEN NaN
        ELSE IF x.t = "inf" /\ y.t = "inf"
             THEN IF x.n = y.n THEN x ELSE NaN
        ELSE IF x.t = "inf" THEN x
        ELSE IF y.t = "inf" THEN y
        ELSE Num(x.n * y.d + y.n * x.d, x.d * y.d)

\* a * b
Mul(a, b) ==
    LET x == ToNumber(a)
        y == ToNumber(b)
    IN  IF x.t = "nan" \/ y.t = "nan" THEN NaN
        ELSE IF x.t = "inf" \/ y.t = "inf"
             THEN IF Sign(x.n) * Sign(y.n) = 0 THEN NaN
                  ELSE Infinity(Sign(x.n) * Sign(y.n))
        ELSE Num(x.n * y.n, x.d * y.d)

\* a / b   (a zero divisor is +0)
Div(a, b) ==
    LET x == ToNumber(a)
        y == ToNumber(b)
    IN  IF x.t = "nan" \/ y.t = "nan" THEN NaN
        ELSE IF x.t = "inf"
             THEN IF y.t = "inf" THEN NaN
                  ELSE Infinity(IF y.n < 0 THEN -x.n ELSE x.n)
        ELSE IF y.t = "inf" THEN Int2Num(0)
        ELSE IF y.n = 0
             THEN IF x.n = 0 THEN NaN ELSE Infinity(Sign(x.n))
        ELSE Num(x.n * y.d, x.d * y.n)

\* a <= b for two values that are not NaN
LessEq(x, y) ==
    IF x.t = "inf" THEN x.n = -1 \/ (y.t = "inf" /\ y.n = 1)
    ELSE IF y.t = "inf" THEN y.n = 1
    ELSE x.n * y.d <= y.n * x.d

\* Math.min(a, b)
MathMin(a, b) ==
    LET x == ToNumber(a)
        y == ToNumber(b)
    IN  IF x.t = "nan" \/ y.t = "nan" THEN NaN
        ELSE IF LessEq(x, y) THEN x ELSE y

\* Math.max(a, b)
MathMax(a, b) ==
    LET x == ToNumber(a)
        y == ToNumber(b)
    IN  IF x.t = "nan" \/ y.t = "nan" THEN NaN
        ELSE IF LessEq(x, y) THEN y ELSE x

\* Array.prototype.slice(start, end) on a 0-based array
JSSlice(s, start, end) ==
    LET len == Len(s)
        st == IF start < 0
              THEN (IF len + start < 0 THEN 0 ELSE len + start)
              ELSE (IF start > len THEN len ELSE start)
        en == IF end < 0
              THEN (IF len + end < 0 THEN 0 ELSE len + end)
              ELSE (IF end > len THEN len ELSE end)
    IN  SubSeq(s, st + 1, en)

\* ------------------------------------------------------------ series rows
\* A row of series.yData: an array of cells, or a scalar (isArray = FALSE)
Row(cells) == [isArray |-> TRUE, cells |-> cells]

ScalarRow == [isArray |-> FALSE, cells |-> <<>>]

\* isArray(row)
isArray(row) == row.isArray

\* row.length (undefined on a scalar; only compared with 4)
RowLength(row) == IF row.isArray THEN Len(row.cells) ELSE -1

\* row[idx], 0-based; undefined outside the array and on a scalar
Cell(row, idx) ==
    IF row.isArray /\ idx >= 0 /\ idx < Len(row.cells)
    THEN Int2Num(row.cells[idx + 1])
    ELSE Undefined

\* column indexes of a row [open, high, low, close]
close == 3

low == 2

high == 1

\* ------------------------------------------------------------------ inputs
\* four-field rows [open, high, low, close]: close at the low, at the high and
\* in the middle of the row's range; a flat row (high = low) with the close on,
\* above and below it
BarRows ==
    { Row(<<0, 1, 0, 0>>), Row(<<0, 1, 0, 1>>), Row(<<0, 2, 0, 1>>),
      Row(<<0, 1, 1, 1>>), Row(<<0, 1, 1, 2>>), Row(<<0, 1, 1, 0>>) }

\* rows that are not 4-arrays: three cells, five cells, a scalar
MalformedRows == { Row(<<0, 1, 0>>), Row(<<0, 1, 0, 1, 1>>), ScalarRow }

Rows == BarRows \cup MalformedRows

SeriesInputs == UNION { [1..n -> Rows] : n \in 0..MaxLen }

Periods == 1..MaxPeriod

\* the worked examples, all with periodK = 3: a 4-bar series, a flat 3-bar
\* series and a 2-bar series that is too short
ScenarioSeries ==
    { << Row(<<0, 6, 4, 5>>), Row(<<0, 8, 5, 7>>), Row(<<0, 7, 4, 6>>), Row(<<0, 10, 5, 9>>) >>,
      << Row(<<0, 10, 10, 10>>), Row(<<0, 10, 10, 10>>), Row(<<0, 10, 10, 10>>) >>,
      << Row(<<0, 6, 4, 5>>), Row(<<0, 8, 5, 7>>) >> }

ScenarioPeriods == << 3, 2 >>

\* series.xData: ascending timestamps, one per row
Timestamps(n) == [k \in 1..n |-> 10 + 2 * (k - 1)]

\* ------------------------------------------------------------------- state
VARIABLES
    periodK,        \* params.periods[0]
    periodD,        \* params.periods[1]
    hasYData,       \* FALSE when series.yData is missing
    xVal,           \* series.xData
    yVal,           \* series.yData
    pc,             \* position in getValues
    i,              \* loop index (0-based)
    K,              \* %K of the current iteration
    D,              \* %D, kept across iterations
    SO,             \* rows [x, K, D]
    xData,          \* timestamps
    yData,          \* rows [K, D]
    ret,            \* "none" while running, then "undefined" or "object"
    extremesCalls,  \* windows handed to getArrayExtremes, in call order
    smaCalls        \* arguments and results of SMA.prototype.getValues, in call order

vars == << periodK, periodD, hasYData, xVal, yVal, pc, i, K, D, SO, xData, yData,
           ret, extremesCalls, smaCalls >>

inputs == << periodK, periodD, hasYData, xVal, yVal >>

\* yVal ? yVal.length : 0
yValLen == IF hasYData THEN Len(yVal) ELSE 0

\* ------------------------------------------------------------ collaborators
\* reduceArrayMixin.getArrayExtremes(arr, minIndex, maxIndex):
\* [minimum of column minIndex, maximum of column maxIndex] over the slice
RECURSIVE getArrayExtremes(_, _, _)
getArrayExtremes(arr, minIndex, maxIndex) ==
    IF Len(arr) = 1
    THEN << ToNumber(Cell(arr[1], minIndex)), ToNumber(Cell(arr[1], maxIndex)) >>
    ELSE LET prev == getArrayExtremes(SubSeq(arr, 1, Len(arr) - 1), minIndex, maxIndex)
             target == arr[Len(arr)]
         IN  << MathMin(prev[1], Cell(target, minIndex)),
                MathMax(prev[2], Cell(target, maxIndex)) >>

\* sum of column 0 of rows[from..to] (1-based, inclusive)
RECURSIVE SumColumn(_, _, _)
SumColumn(rows, from, to) ==
    IF to < from THEN Int2Num(0)
    ELSE Add(SumColumn(rows, from, to - 1), rows[to][1])

\* SMA.prototype.getValues(series, {period}): the arithmetic mean of column 0
\* over every window of `period` rows; no result when there are fewer rows
SMAgetValues(xs, ys, period) ==
    IF Len(xs) < period
    THEN [defined |-> FALSE, xData |-> <<>>, yData |-> <<>>]
    ELSE [defined |-> TRUE,
          xData |-> [m \in 1..(Len(ys) - period + 1) |-> xs[m + period - 1]],
          yData |-> [m \in 1..(Len(ys) - period + 1) |->
                        Div(SumColumn(ys, m, m + period - 1), Int2Num(period))]]

\* --------------------------------------------------------------- getValues
\* variant of Rejects: a series of exactly periodK rows is turned away too
Rejects_Strict(len, yv, pK) ==
    IF len <= pK THEN TRUE
    ELSE IF Len(yv) = 0 THEN TRUE
    ELSE IF ~isArray(yv[1]) THEN TRUE
    ELSE RowLength(yv[1]) # 4

\* the entry test that makes getValues return undefined
Rejects(len, yv, pK) ==
    IF len < pK THEN TRUE
    ELSE IF Len(yv) = 0 THEN TRUE        \* yVal[0] is undefined
    ELSE IF ~isArray(yv[1]) THEN TRUE
    ELSE RowLength(yv[1]) # 4

\* variant of LoopStart: the loop begins one index late
LoopStart_Late(pK) == pK

\* first loop index
LoopStart(pK) == pK - 1

\* variant of Window: the slice begins at the first row of the series
Window_FromStart(yv, idx, pK) == JSSlice(yv, 0, idx + 1)

\* slicedY = yVal.slice(i - periodK + 1, i + 1)
Window(yv, idx, pK) == JSSlice(yv, idx - pK + 1, idx + 1)

\* CL = yVal[i][close] - LL
CloseMinusLow(yv, idx, LL) == Sub(Cell(yv[idx + 1], close), LL)

\* variant of PercentK: the quotient is not scaled
PercentK_NoScale(CL, HL) == Div(CL, HL)

\* variant of PercentK: a zero range yields 0 instead of dividing
PercentK_ZeroDefault(CL, HL) ==
    IF HL.t = "num" /\ HL.n = 0 THEN Int2Num(0)
    ELSE Mul(Div(CL, HL), Int2Num(100))

\* K = CL / HL * 100
PercentK(CL, HL) == Mul(Div(CL, HL), Int2Num(100))

\* %K of index idx
KAt(yv, idx, pK) ==
    LET extremes == getArrayExtremes(Window(yv, idx, pK), low, high)
        LL == extremes[1]
        CL == CloseMinusLow(yv, idx, LL)
        HL == Sub(extremes[2], LL)
    IN  PercentK(CL, HL)

\* variant of SmaDue: strict comparison
SmaDue_Late(idx, pK, pD) == idx > (pK - 1) + (pD - 1)

\* i >= (periodK - 1) + (periodD - 1)
SmaDue(idx, pK, pD) == idx >= (pK - 1) + (pD - 1)

\* variant of Trailing: one row too many
Trailing_OneMore(arr, pD) == JSSlice(arr, -(pD + 1), Len(arr))

\* arr.slice(-periodD)
Trailing(arr, pD) == JSSlice(arr, -pD, Len(arr))

\* variant of FirstMean: a NaN mean is replaced by 0
FirstMean_MaskNaN(points) ==
    IF Len(points.yData) = 0 THEN Undefined
    ELSE IF points.yData[1].t = "nan" THEN Int2Num(0)
    ELSE points.yData[1]

\* D = points.yData[0]
FirstMean(points) ==
    IF Len(points.yData) = 0 THEN Undefined ELSE points.yData[1]

\* variant of Backfill: the newest row keeps its null
Backfill_Skip(yd, d) == yd

\* yData[yData.length - 1][1] = D
Backfill(yd, d) == [yd EXCEPT ![Len(yd)][2] = d]

Init ==
    /\ \/ /\ periodK \in Periods
          /\ periodD \in Periods
          /\ hasYData = TRUE
          /\ yVal \in SeriesInputs
       \/ /\ periodK \in Periods
          /\ periodD \in Periods
          /\ hasYData = FALSE
          /\ yVal = <<>>
       \/ /\ periodK = ScenarioPeriods[1]
          /\ periodD = ScenarioPeriods[2]
          /\ hasYData = TRUE
          /\ yVal \in ScenarioSeries
    /\ xVal = Timestamps(Len(yVal))
    /\ pc = "entry"
    /\ i = 0
    /\ K = Undefined
    /\ D = Null
    /\ SO = <<>>
    /\ xData = <<>>
    /\ yData = <<>>
    /\ ret = "none"
    /\ extremesCalls = <<>>
    /\ smaCalls = <<>>

\* lines 206-212: the series is too short or its first row is not a 4-array
Reject ==
    /\ pc = "entry"
    /\ Rejects(yValLen, yVal, periodK)
    /\ pc' = "done"
    /\ ret' = "undefined"
    /\ UNCHANGED << inputs, i, K, D, SO, xData, yData, extremesCalls, smaCalls >>

\* line 217, loop initialisation
Enter ==
    /\ pc = "entry"
    /\ ~Rejects(yValLen, yVal, periodK)
    /\ i' = LoopStart(periodK)
    /\ pc' = "loop"
    /\ UNCHANGED << inputs, K, D, SO, xData, yData, ret, extremesCalls, smaCalls >>

\* lines 217-228: compute %K of index i, push the timestamp and [K, null]
PushK ==
    /\ pc = "loop"
    /\ i < yValLen
    /\ K' = KAt(yVal, i, periodK)
    /\ extremesCalls' = Append(extremesCalls, Window(yVal, i, periodK))
    /\ xData' = Append(xData, xVal[i + 1])
    /\ yData' = Append(yData, << K', Null >>)
    /\ pc' = "sma"
    /\ UNCHANGED << inputs, i, D, SO, ret, smaCalls >>

\* lines 231-239: %D is the SMA of the trailing periodD rows
CallSMA ==
    /\ pc = "sma"
    /\ SmaDue(i, periodK, periodD)
    /\ LET xs == Trailing(xData, periodD)
           ys == Trailing(yData, periodD)
           points == SMAgetValues(xs, ys, periodD)
       IN  /\ smaCalls' = Append(smaCalls,
                  [i |-> i, xData |-> xs, yData |-> ys, period |-> periodD,
                   means |-> points.yData])
           /\ IF points.defined
              THEN /\ D' = FirstMean(points)
                   /\ pc' = "emit"
                   /\ ret' = ret
              ELSE \* reading yData of undefined throws
                   /\ D' = D
                   /\ pc' = "done"
                   /\ ret' = "threw"
    /\ UNCHANGED << inputs, i, K, SO, xData, yData, extremesCalls >>

\* line 231, condition false
SkipSMA ==
    /\ pc = "sma"
    /\ ~SmaDue(i, periodK, periodD)
    /\ pc' = "emit"
    /\ UNCHANGED << inputs, i, K, D, SO, xData, yData, ret, extremesCalls, smaCalls >>

\* lines 241-242 and the loop increment
Emit ==
    /\ pc = "emit"
    /\ SO' = Append(SO, << xVal[i + 1], K, D >>)
    /\ yData' = Backfill(yData, D)
    /\ i' = i + 1
    /\ pc' = "loop"
    /\ UNCHANGED << inputs, K, D, xData, ret, extremesCalls, smaCalls >>

\* lines 245-249
Return ==
    /\ pc = "loop"
    /\ ~(i < yValLen)
    /\ ret' = "object"
    /\ pc' = "done"
    /\ UNCHANGED << inputs, i, K, D, SO, xData, yData, extremesCalls, smaCalls >>

Next ==
    \/ Reject
    \/ Enter
    \/ PushK
    \/ CallSMA
    \/ SkipSMA
    \/ Emit
    \/ Return

Spec == Init /\ [][Next]_vars

\* ------------------------------------------------- vocabulary of the claims
\* every row of the series is an array of exactly four cells
AllFourField(yv) == \A m \in 1..Len(yv) : yv[m].isArray /\ Len(yv[m].cells) = 4

\* the run was accepted and has returned its three sequences
Returned == pc = "done" /\ ret = "object"

\* rows (1-based) of the window of output record j (1-based)
WinRows(j) == j..(j + periodK - 1)

\* the row output record j is computed for: source index j + periodK - 2
CurRow(j) == yVal[j + periodK - 1]

\* the window of record j has a high and a low in every row
WinNumeric(j) == \A m \in WinRows(j) : yVal[m].isArray /\ Len(yVal[m].cells) >= 3

HasClose(j) == CurRow(j).isArray /\ Len(CurRow(j).cells) >= 4

CloseOf(j) == CurRow(j).cells[4]

\* lowest low and highest high of the window, [open, high, low, close] rows
MinLow(j) ==
    LET S == { yVal[m].cells[3] : m \in WinRows(j) }
    IN  CHOOSE v \in S : \A w \in S : v <= w

MaxHigh(j) ==
    LET S == { yVal[m].cells[2] : m \in WinRows(j) }
    IN  CHOOSE v \in S : \A w \in S : v >= w

Degenerate(j) == WinNumeric(j) /\ MaxHigh(j) = MinLow(j)

\* v is the finite number a / b  (b # 0)
IsRatio(v, a, b) == v.t = "num" /\ v.n * b = a * v.d

InZeroHundred(v) == v.t = "num" /\ 0 <= v.n /\ v.n <= 100 * v.d

RECURSIVE SumK(_, _, _)
SumK(so, from, to) ==
    IF from > to THEN Int2Num(0)
    ELSE Add(so[from][2], SumK(so, from + 1, to))

\* ------------------------------------------------------------------ claims

\* C1: for a series whose rows all have four fields, with periodK, periodD >= 1
\* and series.length >= periodK, getValues returns series.length - periodK + 1
\* records in each of values, xData and yData, and the timestamp of record j
\* (0-based) is the input timestamp at index j + periodK - 1.
Thm_C1_RecordCountAndTimestamps ==
    (pc = "done" /\ hasYData /\ AllFourField(yVal) /\ Len(yVal) >= periodK)
    => /\ ret = "object"
       /\ Len(SO) = Len(yVal) - periodK + 1
       /\ Len(xData) = Len(yVal) - periodK + 1
       /\ Len(yData) = Len(yVal) - periodK + 1
       /\ \A j \in 1..Len(xData) :
             /\ xData[j] = xVal[j + periodK - 1]
             /\ SO[j][1] = xVal[j + periodK - 1]

Wit_C1_SeveralRecords ==
    /\ Returned
    /\ AllFourField(yVal)
    /\ periodK >= 2
    /\ Len(yVal) > periodK
    /\ Len(xData) >= 2
    /\ xData[2] = xVal[periodK + 1]

\* C2: the K emitted for index i is (close(bars[i]) - LL) / (HH - LL) * 100 with
\* LL the minimum low and HH the maximum high over exactly the periodK bars
\* bars[i - periodK + 1 .. i]; with a zero range the quotient is not a finite
\* number.  periodK = 3 on (close,low,high) = (5,4,6),(7,5,8),(6,4,7),(9,5,10)
\* gives 50 at index 2 and 500/6 at index 3.
Thm_C2_KFormula ==
    AllFourField(yVal)
    => \A j \in 1..Len(SO) :
          /\ yData[j][1] = SO[j][2]
          /\ IF MaxHigh(j) # MinLow(j)
             THEN IsRatio(SO[j][2], 100 * (CloseOf(j) - MinLow(j)), MaxHigh(j) - MinLow(j))
             ELSE ~IsFinite(SO[j][2])

Wit_C2_WorkedExample ==
    /\ Returned
    /\ periodK = 3
    /\ Len(yVal) = 4
    /\ yVal[1] = Row(<<0, 6, 4, 5>>)
    /\ yVal[4] = Row(<<0, 10, 5, 9>>)
    /\ SO[1][2] = Num(50, 1)
    /\ SO[2][2] = Num(500, 6)

\* C3 as stated: whenever the window has HH # LL, K lies in [0, 100].
CE_C3_KAlwaysInRange ==
    \A j \in 1..Len(SO) :
        (WinNumeric(j) /\ HasClose(j) /\ MaxHigh(j) # MinLow(j))
        => InZeroHundred(SO[j][2])

\* C3 amended: whenever the window has HH # LL and the current close lies within
\* the window's range, LL <= close <= HH, K is a number in [0, 100]; it is 0
\* when the close equals LL and 100 when the close equals HH.
Thm_C3_KInRangeWhenCloseInWindow ==
    \A j \in 1..Len(SO) :
        (WinNumeric(j) /\ HasClose(j) /\ MaxHigh(j) # MinLow(j)
            /\ MinLow(j) <= CloseOf(j) /\ CloseOf(j) <= MaxHigh(j))
        => /\ InZeroHundred(SO[j][2])
           /\ (CloseOf(j) = MinLow(j) => SO[j][2] = Int2Num(0))
           /\ (CloseOf(j) = MaxHigh(j) => SO[j][2] = Int2Num(100))

Wit_C3_LowAndHigh ==
    /\ Returned
    /\ AllFourField(yVal)
    /\ \E j \in 1..Len(SO) :
          /\ MinLow(j) < MaxHigh(j) /\ CloseOf(j) = MinLow(j)
          /\ SO[j][2] = Int2Num(0)
    /\ \E j \in 1..Len(SO) :
          /\ MinLow(j) < MaxHigh(j) /\ CloseOf(j) = MaxHigh(j)
          /\ SO[j][2] = Int2Num(100)

\* C4 as stated: every degenerate window (HH = LL) emits K = NaN.
CE_C4_DegenerateIsNaN ==
    \A j \in 1..Len(SO) : Degenerate(j) => SO[j][2] = NaN

\* C4 amended: every degenerate window (HH = LL) emits a K that is not a finite
\* number (never 0, 100 or another number): NaN when the current close equals
\* LL or is missing, +Infinity when it is above LL, -Infinity when it is below;
\* the run does not abort, a record is emitted for that and every later index.
Thm_C4_DegenerateNotFinite ==
    /\ ret # "threw"
    /\ \A j \in 1..Len(SO) :
          Degenerate(j)
          => /\ ~IsFinite(SO[j][2])
             /\ SO[j][2] = IF ~HasClose(j) THEN NaN
                           ELSE IF CloseOf(j) = MinLow(j) THEN NaN
                           ELSE IF CloseOf(j) > MinLow(j) THEN Infinity(1)
                           ELSE Infinity(-1)
             /\ yData[j][1] = SO[j][2]
    /\ Returned => Len(SO) = Len(yVal) - periodK + 1

Wit_C4_FlatWindowThenMore ==
    /\ Returned
    /\ periodK = 2
    /\ yVal[1] = Row(<<0, 1, 1, 1>>)
    /\ Degenerate(1)
    /\ SO[1][2] = NaN
    /\ Len(SO) >= 2
    /\ IsFinite(SO[2][2])

\* C5: for every output position j >= periodD - 1, D[j] is not a finite number
\* exactly when one of the K values at positions j - periodD + 1 .. j is not a
\* finite number: a degenerate window at position m makes D non-numeric at
\* every position m .. m + periodD - 1 that has a D, and D is a finite number
\* again once the trailing periodD K values are all finite.
Thm_C5_NonNumericPropagation ==
    \A j \in 1..Len(SO) :
        j >= periodD
        => /\ SO[j][3] # Null
           /\ ~IsFinite(SO[j][3])
                <=> (\E m \in (j - periodD + 1)..j : ~IsFinite(SO[m][2]))
           /\ \A m \in (j - periodD + 1)..j : Degenerate(m) => ~IsFinite(SO[j][3])
           /\ yData[j][2] = SO[j][3]

Wit_C5_ContaminatedThenClean ==
    /\ Returned
    /\ periodK = 1
    /\ periodD = 2
    /\ Len(SO) = 3
    /\ Degenerate(1)
    /\ SO[1][2] = NaN
    /\ SO[2][3] = NaN
    /\ IsFinite(SO[3][3])

\* C6: in the returned output D is null at every position j < periodD - 1, and
\* at every position j >= periodD - 1 it is present and is the arithmetic mean
\* of K[j - periodD + 1 .. j], computed for that position.
Thm_C6_DAbsentThenMean ==
    Returned
    => \A j \in 1..Len(SO) :
          /\ yData[j][2] = SO[j][3]
          /\ IF j < periodD
             THEN SO[j][3] = Null
             ELSE /\ SO[j][3] # Null
                  /\ SO[j][3] # Undefined
                  /\ LET sum == SumK(SO, j - periodD + 1, j)
                     IN  IF IsFinite(sum)
                         THEN IsRatio(SO[j][3], sum.n, sum.d * periodD)
                         ELSE ~IsFinite(SO[j][3])

Wit_C6_NullThenDistinctMeans ==
    /\ Returned
    /\ periodD = 2
    /\ Len(SO) = 3
    /\ SO[1][3] = Null
    /\ SO[1][2] = Int2Num(0)
    /\ SO[2][3] = Num(50, 1)
    /\ SO[3][3] = Num(100, 1)

\* C7 as stated: a series with a row, at any index, that does not carry exactly
\* four fields is rejected wholesale: no result and no records.
CE_C7_AnyMalformedRowRejects ==
    (pc = "done" /\ hasYData /\ ~AllFourField(yVal))
    => /\ ret = "undefined"
       /\ SO = <<>>
       /\ xData = <<>>
       /\ yData = <<>>

\* C8: with series.length < periodK (an empty or missing series included)
\* getValues returns undefined with no records, never enters the loop and calls
\* neither getArrayExtremes nor the moving average; a four-field series with
\* series.length >= periodK is never rejected, and series.length = periodK
\* yields exactly one record.
Thm_C8_ShortSeriesRejected ==
    /\ yValLen < periodK
       => /\ pc \in {"entry", "done"}
          /\ pc = "done" => ret = "undefined"
          /\ SO = <<>> /\ xData = <<>> /\ yData = <<>>
          /\ extremesCalls = <<>>
          /\ smaCalls = <<>>
    /\ (pc = "done" /\ hasYData /\ AllFourField(yVal) /\ Len(yVal) >= periodK)
       => /\ ret = "object"
          /\ Len(yVal) = periodK => Len(SO) = 1

Wit_C8_TooShort ==
    /\ pc = "done"
    /\ hasYData
    /\ Len(yVal) = 2
    /\ periodK = 3
    /\ AllFourField(yVal)
    /\ ret = "undefined"
    /\ SO = <<>>

\* C9: during the forward pass records are only appended: a step leaves every
\* earlier record of the three sequences unchanged, the only write to a row
\* already in yData sets the D field of its newest row to the D of that
\* iteration, after the moving-average step; at the end of every iteration and
\* on return the sequences have equal length and
\* values[j] = (xData[j], yData[j].K, yData[j].D).
Thm_C9_AppendOnlyAligned ==
    [][ /\ Len(SO') >= Len(SO) /\ SubSeq(SO', 1, Len(SO)) = SO
        /\ Len(xData') >= Len(xData) /\ SubSeq(xData', 1, Len(xData)) = xData
        /\ Len(yData') >= Len(yData)
        /\ \A j \in 1..Len(yData) :
              yData'[j] # yData[j]
              => /\ j = Len(yData)
                 /\ j > Len(SO)
                 /\ pc = "emit"
                 /\ yData'[j] = << yData[j][1], D >>
        /\ (pc' \in {"loop", "done"} /\ ret' # "threw")
           => /\ Len(SO') = Len(xData')
              /\ Len(SO') = Len(yData')
              /\ \A j \in 1..Len(SO') :
                    SO'[j] = << xData'[j], yData'[j][1], yData'[j][2] >>
      ]_vars

Wit_C9_BackfilledRow ==
    /\ pc = "loop"
    /\ Len(SO) >= 2
    /\ yData[1][2] = Null
    /\ yData[Len(yData)][2] # Null
    /\ i < yValLen

\* C10: the moving average is invoked exactly once for each index
\* i >= (periodK - 1) + (periodD - 1) and never for an earlier one; every
\* invocation receives exactly periodD samples, the trailing periodD K values
\* ending at the current index with their timestamps, and period = periodD, and
\* yields exactly one mean, which becomes D.
Thm_C10_SmaInvocations ==
    /\ \A c \in 1..Len(smaCalls) :
          LET call == smaCalls[c]
              j == call.i - periodK + 2      \* 1-based record of index call.i
          IN  /\ call.i = (periodK - 1) + (periodD - 1) + (c - 1)
              /\ call.i <= i
              /\ call.period = periodD
              /\ Len(call.xData) = periodD
              /\ Len(call.yData) = periodD
              /\ \A q \in 1..periodD :
                    /\ call.xData[q] = xVal[call.i + 1 - periodD + q]
                    /\ call.yData[q][1] = yData[j - periodD + q][1]
              /\ Len(call.means) = 1
              /\ j <= Len(SO) => SO[j][3] = call.means[1]
    /\ \A j \in 1..Len(SO) :
          j >= periodD => Len(smaCalls) >= j - periodD + 1

Wit_C10_TwoInvocations ==
    /\ Returned
    /\ periodD = 2
    /\ periodK = 1
    /\ Len(smaCalls) = 2
    /\ smaCalls[1].i = 1
    /\ smaCalls[2].i = 2

====
